---- MODULE Spec2Model ----
(***************************************************************************)
(* GraphDisplay (src/src/pages/ModelOfInterest/GraphDisplay/index.tsx):    *)
(* the effect that fetches the model metadata, builds the node and link    *)
(* arrays, creates the d3 force simulation and wires drag and click        *)
(* handlers.  Each run of the effect is one instance g (its closure).      *)
(*                                                                         *)
(* d3 is modelled by what its documented defaults do: forceSimulation      *)
(* (alpha 1, alphaMin 0.001, alphaDecay 1 - 0.001^(1/300), alphaTarget 0,  *)
(* a timer that ticks until alpha < alphaMin), d3.drag (one gesture per    *)
(* pointer identifier, event.active = number of other active gestures,     *)
(* click suppressed after a gesture that moved).  Forces are floating      *)
(* point physics: the position a free node gets from a tick is a           *)
(* nondeterministic choice in Points.  alpha is kept in units of 0.00001.   *)
(***************************************************************************)
EXTENDS Integers, Sequences, FiniteSets, TLC

(* ------------------------------ bounds --------------------------------- *)
\* how many times the effect runs (the component is mounted)
MaxMounts == 2
\* records in a fetched list, and entries in one dependencies array
MaxRecords == 2
MaxDeps == 2
\* simulation ticks explored in one behaviour
MaxTicks == 2
\* navigation requests recorded in one behaviour
MaxOpened == 1
MaxDecayTicks == 310

Gens == 1..MaxMounts
Names == {"A", "B"}
\* the places a node or a pointer can be at, as <<x, y>>
Points == {<<0, 0>>, <<1, 1>>}
Pointers == {"mouse", "touch"}

(* ------------------------------ JS values ------------------------------ *)
\* null / undefined of an optional field; a present value v is <<v>>
Null == <<>>
Some(v) == <<v>>
\* what item.name evaluates to when the record has no name field
Undefined == "undefined"

\* JSON values of a dependencies field
Arr(s) == [kind |-> "array", items |-> s]
Str(s) == [kind |-> "string", text |-> s]

SeqsUpTo(S, n) == UNION {[1..k -> S] : k \in 0..n}

\* well-formed records, and the malformed shapes: a dependencies that is not
\* an array, no dependencies, no name
DepsValues == {Arr(s) : s \in SeqsUpTo(Names, MaxDeps)}
Items ==
    [name : Names, dependencies : DepsValues \cup {Str("B")}]
        \cup [name : Names]
        \cup [dependencies : DepsValues]
AllData == SeqsUpTo(Items, MaxRecords)

ItemName(item) == IF "name" \in DOMAIN item THEN item.name ELSE Undefined

\* item.dependencies.forEach is callable only on an array
HasForEach(item) ==
    "dependencies" \in DOMAIN item /\ item.dependencies.kind = "array"

(* ------------------------------ the build ------------------------------ *)
\* the TypeError of line 38: the first loop reaches a record whose
\* dependencies is undefined or has no forEach
BuildThrows(data) == \E k \in DOMAIN data : ~HasForEach(data[k])

\* Set.add: insertion order, SameValueZero
SetAddNoDedup(s, v) == Append(s, v)
SetAdd(s, v) == IF \E i \in DOMAIN s : s[i] = v THEN s ELSE Append(s, v)

AddAllNone(s, vs) == s
RECURSIVE AddAll(_, _)
AddAll(s, vs) == IF vs = <<>> THEN s ELSE AddAll(SetAdd(s, Head(vs)), Tail(vs))

Front(s) == SubSeq(s, 1, Len(s) - 1)
Last(s) == s[Len(s)]

\* lines 35-39, as the sequence Array.from(nodesSet) yields
RECURSIVE NodesSet(_)
NodesSet(data) ==
    IF data = <<>> THEN <<>>
    ELSE AddAll(SetAdd(NodesSet(Front(data)), ItemName(Last(data))),
                Last(data).dependencies.items)

BaseUrl == "/BeSLighthouse/model_report"

\* lines 145-149
getModelUrlAlways(data, nodeName) == Some(BaseUrl \o nodeName)
getModelUrl(data, nodeName) ==
    IF \E k \in DOMAIN data : ItemName(data[k]) = nodeName
    THEN Some(BaseUrl \o nodeName)
    ELSE Null

\* d3's initial placement of node i (phyllotaxis), abstracted into Points
InitialX(i) == i % 2
InitialY(i) == i % 2

\* lines 41-46, and the fields forceSimulation(nodes) adds (x, y; fx, fy
\* absent), and the circle's cx, cy attributes (unset until ticked runs)
NewNode(data, name, i) ==
    [name |-> name, color |-> "#0077cc", model_url |-> getModelUrl(data, name),
     isDependency |-> FALSE,
     x |-> InitialX(i), y |-> InitialY(i), fx |-> Null, fy |-> Null,
     cx |-> Null, cy |-> Null]

InitialNodes(data) ==
    LET set == NodesSet(data) IN [i \in DOMAIN set |-> NewNode(data, set[i], i)]

\* lines 50-52: the links one item pushes
ItemLinksDedup(item) ==
    LET deps == AddAll(<<>>, item.dependencies.items)
    IN  [j \in DOMAIN deps |-> [source |-> ItemName(item), target |-> deps[j]]]
ItemLinks(item) ==
    [j \in DOMAIN item.dependencies.items |->
        [source |-> ItemName(item), target |-> item.dependencies.items[j]]]

RECURSIVE Links(_)
Links(data) ==
    IF data = <<>> THEN <<>> ELSE Links(Front(data)) \o ItemLinks(Last(data))

\* lines 54-55: nodes.find(...) is the first node with that name
MarkDepNever(ns, dep) == ns
MarkDep(ns, dep) ==
    LET found == {i \in DOMAIN ns : ns[i].name = dep}
    IN  IF found = {} THEN ns
        ELSE LET i == CHOOSE m \in found : \A o \in found : m <= o
             IN  [ns EXCEPT ![i].isDependency = TRUE]

RECURSIVE MarkAll(_, _)
MarkAll(ns, ls) ==
    IF ls = <<>> THEN ns ELSE MarkDep(MarkAll(ns, Front(ls)), Last(ls).target)

\* lines 34-57
BuiltNodes(data) == MarkAll(InitialNodes(data), Links(data))

(* ------------------------------ d3 defaults ---------------------------- *)
\* alpha in units of 0.00001: simulation.alpha() = 1, alphaMin() = 0.001,
\* alphaDecay() = 1 - 0.001^(1/300) = 0.02276, alphaTarget(0.5) while dragging
AlphaOne == 100000
AlphaMin == 100
AlphaDecay == 2276
AlphaDrag == 50000

\* simulation.tick(): alpha += (alphaTarget - alpha) * alphaDecay
NextAlphaHeld(a, target) == IF target > a THEN target ELSE a
NextAlpha(a, target) == a + (((target - a) * AlphaDecay) \div AlphaOne)

(* ------------------------------ state ---------------------------------- *)
VARIABLES
    mounts,       \* how many times the effect has run
    status,       \* per instance: "unmounted", "fetching", "failed", "built"
    data,         \* per instance: the parsed response the closure keeps
    nodes,        \* per instance: the nodes array (d3 adds x, y, fx, fy)
    links,        \* per instance: the links array
    alpha,        \* per instance: simulation.alpha()
    alphaTarget,  \* per instance: simulation.alphaTarget()
    running,      \* per instance: the simulation's timer is scheduled
    active,       \* per instance: d3.drag's count of active gestures
    gestures,     \* per pointer: Null, or the gesture it is performing
    container,    \* instance whose svg is inside #graph-container, 0 if none
    opened,       \* the window.open calls made, in order
    console,      \* the console.error calls made, in order
    ticks         \* simulation ticks taken so far

vars == <<mounts, status, data, nodes, links, alpha, alphaTarget, running,
          active, gestures, container, opened, console, ticks>>

simVars == <<alpha, alphaTarget, running, active>>

Init ==
    /\ mounts = 0
    /\ status = [g \in Gens |-> "unmounted"]
    /\ data = [g \in Gens |-> <<>>]
    /\ nodes = [g \in Gens |-> <<>>]
    /\ links = [g \in Gens |-> <<>>]
    /\ alpha = [g \in Gens |-> 0]
    /\ alphaTarget = [g \in Gens |-> 0]
    /\ running = [g \in Gens |-> FALSE]
    /\ active = [g \in Gens |-> 0]
    /\ gestures = [p \in Pointers |-> Null]
    /\ container = 0
    /\ opened = <<>>
    /\ console = <<>>
    /\ ticks = 0

(* ------------------------------ fetch and build ------------------------ *)
\* lines 20-26 and 173-177: the component mounts, rendering an empty
\* #graph-container, and the effect starts a fetch.  Nothing of an earlier
\* instance is cancelled or stopped (the effect returns no cleanup).
Mount ==
    /\ mounts < MaxMounts
    /\ mounts' = mounts + 1
    /\ status' = [status EXCEPT ![mounts + 1] = "fetching"]
    /\ container' = 0
    /\ UNCHANGED <<data, nodes, links, simVars, gestures, opened, console, ticks>>

\* what a fetch can resolve to
JsonOf(d) == [kind |-> "json", data |-> d]
HttpError(code) == [kind |-> "http", status |-> code]
BadJson == [kind |-> "badjson"]
Failures == {HttpError("500"), HttpError("404"), BadJson}

\* lines 28-31 and 36-38: the message of the error the chain rejects with,
\* Null when the handlers run to the end
NoForEach == "Cannot read properties of undefined (reading 'forEach')"
NotAFunction == "item.dependencies.forEach is not a function"
TypeErrors == {NoForEach, NotAFunction}

ErrorOfNoStatus(r) ==
    IF r.kind = "http" THEN Some("Failed to fetch data.")
    ELSE IF r.kind = "badjson" THEN Some("Unexpected token in JSON")
    ELSE IF BuildThrows(r.data) THEN Some(NoForEach)
    ELSE Null
ErrorOf(r) ==
    IF r.kind = "http" THEN Some("Failed to fetch data. Status: " \o r.status)
    ELSE IF r.kind = "badjson" THEN Some("Unexpected token in JSON")
    ELSE IF BuildThrows(r.data)
         THEN LET bad == {k \in DOMAIN r.data : ~HasForEach(r.data[k])}
                  k == CHOOSE m \in bad : \A o \in bad : m <= o
              IN  IF "dependencies" \in DOMAIN r.data[k]
                  THEN Some(NotAFunction) ELSE Some(NoForEach)
    ELSE Null

CatchAfterClear(g, message) ==
    /\ console' = Append(console, [gen |-> g, message |-> message])
    /\ status' = [status EXCEPT ![g] = "failed"]
    /\ container' = 0
    /\ UNCHANGED <<mounts, data, nodes, links, simVars, gestures, opened, ticks>>
\* lines 168-170
Catch(g, message) ==
    /\ console' = Append(console, [gen |-> g, message |-> message])
    /\ status' = [status EXCEPT ![g] = "failed"]
    /\ UNCHANGED <<mounts, data, nodes, links, simVars, gestures, container,
                   opened, ticks>>

ThenBuildCarried(g, d) ==
    LET seen == IF g > 1 THEN data[g - 1] ELSE <<>>
    IN  /\ status' = [status EXCEPT ![g] = "built"]
        /\ data' = [data EXCEPT ![g] = d]
        /\ nodes' = [nodes EXCEPT ![g] = BuiltNodes(seen \o d)]
        /\ links' = [links EXCEPT ![g] = Links(seen \o d)]
        /\ container' = g
        /\ alpha' = [alpha EXCEPT ![g] = AlphaOne]
        /\ alphaTarget' = [alphaTarget EXCEPT ![g] = 0]
        /\ running' = [running EXCEPT ![g] = TRUE]
        /\ active' = [active EXCEPT ![g] = 0]
        /\ UNCHANGED <<mounts, gestures, opened, console, ticks>>
\* lines 33-130: build, clear the container, create the simulation (its
\* timer starts at once), append the svg
ThenBuild(g, d) ==
    /\ status' = [status EXCEPT ![g] = "built"]
    /\ data' = [data EXCEPT ![g] = d]
    /\ nodes' = [nodes EXCEPT ![g] = BuiltNodes(d)]
    /\ links' = [links EXCEPT ![g] = Links(d)]
    /\ container' = g
    /\ alpha' = [alpha EXCEPT ![g] = AlphaOne]
    /\ alphaTarget' = [alphaTarget EXCEPT ![g] = 0]
    /\ running' = [running EXCEPT ![g] = TRUE]
    /\ active' = [active EXCEPT ![g] = 0]
    /\ UNCHANGED <<mounts, gestures, opened, console, ticks>>

\* lines 26-33, 168-170: the response of instance g's fetch arrives
Respond(g, r) ==
    /\ status[g] = "fetching"
    /\ IF ErrorOf(r) # Null THEN Catch(g, ErrorOf(r)[1]) ELSE ThenBuild(g, r.data)

(* ------------------------------ simulation ----------------------------- *)
\* simulation.tick() on one node: a node with fx (fy) set is put there, a
\* free node is moved by its velocity;  then ticked, lines 133-143, copies
\* the position into the circle's cx, cy
TickNode(n, pt) ==
    LET nx == IF n.fx = Null THEN pt[1] ELSE n.fx[1]
        ny == IF n.fy = Null THEN pt[2] ELSE n.fy[1]
    IN  [n EXCEPT !.x = nx, !.y = ny, !.cx = Some(nx), !.cy = Some(ny)]

\* lines 67-73, 133-143: one step of instance g's timer: tick, the tick
\* listener, and the timer stops once alpha < alphaMin
TickWithinStopped(g, bound) ==
    /\ status[g] = "built"
    /\ ticks < bound
    /\ ticks' = ticks + 1
    /\ alpha' = [alpha EXCEPT ![g] = NextAlpha(alpha[g], alphaTarget[g])]
    /\ running' = [running EXCEPT ![g] = ~(alpha'[g] < AlphaMin)]
    /\ \E pt \in [DOMAIN nodes[g] -> Points] :
          nodes' = [nodes EXCEPT
                      ![g] = [i \in DOMAIN nodes[g] |->
                                 TickNode(nodes[g][i], pt[i])]]
    /\ UNCHANGED <<mounts, status, data, links, alphaTarget, active, gestures,
                   container, opened, console>>
TickWithin(g, bound) ==
    /\ status[g] = "built"
    /\ running[g]
    /\ ticks < bound
    /\ ticks' = ticks + 1
    /\ alpha' = [alpha EXCEPT ![g] = NextAlpha(alpha[g], alphaTarget[g])]
    /\ running' = [running EXCEPT ![g] = ~(alpha'[g] < AlphaMin)]
    /\ \E pt \in [DOMAIN nodes[g] -> Points] :
          nodes' = [nodes EXCEPT
                      ![g] = [i \in DOMAIN nodes[g] |->
                                 TickNode(nodes[g][i], pt[i])]]
    /\ UNCHANGED <<mounts, status, data, links, alphaTarget, active, gestures,
                   container, opened, console>>
Tick(g) == TickWithin(g, MaxTicks)

(* ------------------------------ drag and click ------------------------- *)
\* lines 151-155; n is event.active
dragstartedNoRestart(g, i, n) ==
    /\ alphaTarget' = [alphaTarget EXCEPT
                          ![g] = IF n = 0 THEN AlphaDrag ELSE alphaTarget[g]]
    /\ running' = running
    /\ nodes' = [nodes EXCEPT ![g][i].fx = Some(nodes[g][i].x),
                              ![g][i].fy = Some(nodes[g][i].y)]
dragstarted(g, i, n) ==
    /\ alphaTarget' = [alphaTarget EXCEPT
                          ![g] = IF n = 0 THEN AlphaDrag ELSE alphaTarget[g]]
    /\ running' = [running EXCEPT ![g] = (n = 0) \/ running[g]]
    /\ nodes' = [nodes EXCEPT ![g][i].fx = Some(nodes[g][i].x),
                              ![g][i].fy = Some(nodes[g][i].y)]

\* lines 157-160; ex, ey are event.x, event.y
dragged(g, i, ex, ey) ==
    nodes' = [nodes EXCEPT ![g][i].fx = Some(ex), ![g][i].fy = Some(ey)]

\* lines 162-166; n is event.active
dragendedLowers(g, i, n) ==
    /\ alphaTarget' = [alphaTarget EXCEPT ![g] = 0]
    /\ nodes' = [nodes EXCEPT ![g][i].fx = Null, ![g][i].fy = Null]
dragendedOneAxis(g, i, n) ==
    /\ alphaTarget' = [alphaTarget EXCEPT
                          ![g] = IF n = 0 THEN 0 ELSE alphaTarget[g]]
    /\ nodes' = [nodes EXCEPT ![g][i].fx = Null]
dragended(g, i, n) ==
    /\ alphaTarget' = [alphaTarget EXCEPT
                          ![g] = IF n = 0 THEN 0 ELSE alphaTarget[g]]
    /\ nodes' = [nodes EXCEPT ![g][i].fx = Null, ![g][i].fy = Null]

\* JavaScript truthiness of model_url: null and "" are falsy
Truthy(v) == v # Null /\ v[1] # ""

\* line 116: the url handed to window.open
OpenedUrl(d) == BaseUrl \o "/:" \o d.name

\* lines 114-118; the event is the browser's click event, which has no
\* active property, so !event.active is true
handleNodeClick(g, i) ==
    IF Truthy(nodes[g][i].model_url)
    THEN /\ Len(opened) < MaxOpened
         /\ opened' = Append(opened, [gen |-> g, node |-> i,
                                      url |-> OpenedUrl(nodes[g][i])])
    ELSE opened' = opened

\* lines 96-99, 112: a pointer goes down on circle i of the displayed svg and
\* d3.drag starts a gesture (event.active = active++, subject = the datum)
PointerDown(p, i) ==
    /\ container # 0
    /\ i \in DOMAIN nodes[container]
    /\ gestures[p] = Null
    /\ LET g == container
           d == nodes[g][i]
       IN  /\ gestures' = [gestures EXCEPT
                              ![p] = Some([gen |-> g, node |-> i, moved |-> FALSE,
                                           x |-> d.x, y |-> d.y])]
           /\ active' = [active EXCEPT ![g] = active[g] + 1]
           /\ dragstarted(g, i, active[g])
    /\ UNCHANGED <<mounts, status, data, links, alpha, container, opened,
                   console, ticks>>

\* lines 98, 157-160: a move event of the pointer, event.x, event.y = pt; the
\* gesture counts as moved once the pointer has left the place it went
\* down at (until then x, y of the gesture are that place)
PointerMove(p, pt) ==
    /\ gestures[p] # Null
    /\ LET gs == gestures[p][1]
       IN  /\ gestures' = [gestures EXCEPT
                              ![p] = Some([gs EXCEPT
                                  !.moved = gs.moved \/ pt # <<gs.x, gs.y>>,
                                  !.x = pt[1], !.y = pt[2]])]
           /\ dragged(gs.gen, gs.node, pt[1], pt[2])
    /\ UNCHANGED <<mounts, status, data, links, simVars, container, opened,
                   console, ticks>>

\* the click the browser dispatches after a release: none after a gesture
\* that moved (d3.drag suppresses it), none on a circle no longer displayed
ClickFollowsAlways(gs) == container = gs.gen
ClickFollows(gs) == ~gs.moved /\ container = gs.gen

\* lines 99, 162-166, then 110, 114-118: the pointer is released
\* (event.active = --active), and the click, if one follows
PointerUp(p) ==
    /\ gestures[p] # Null
    /\ LET gs == gestures[p][1]
       IN  /\ gestures' = [gestures EXCEPT ![p] = Null]
           /\ active' = [active EXCEPT ![gs.gen] = active[gs.gen] - 1]
           /\ dragended(gs.gen, gs.node, active[gs.gen] - 1)
           /\ IF ClickFollows(gs)
              THEN handleNodeClick(gs.gen, gs.node)
              ELSE opened' = opened
    /\ UNCHANGED <<mounts, status, data, links, alpha, running, container,
                   console, ticks>>

\* lines 110, 114-118: a click d3.drag's filter keeps from starting a
\* gesture (ctrl held) on circle i of the displayed svg
FilteredClick(i) ==
    /\ container # 0
    /\ i \in DOMAIN nodes[container]
    /\ handleNodeClick(container, i)
    /\ UNCHANGED <<mounts, status, data, nodes, links, simVars, gestures,
                   container, console, ticks>>

(* ------------------------------ specifications ------------------------- *)
Example == <<[name |-> "A", dependencies |-> Arr(<<"B">>)]>>
Malformed == <<[name |-> "A"]>>
NotArray == <<[name |-> "A", dependencies |-> Str("B")]>>

\* the responses the interaction model is explored with
SampleResponses ==
    {JsonOf(Example), JsonOf(Malformed), JsonOf(NotArray), HttpError("500"),
     BadJson}
AllResponses == {JsonOf(d) : d \in AllData} \cup Failures

Fetching == {g \in Gens : status[g] = "fetching"}
RespondSample == \E g \in Fetching, r \in SampleResponses : Respond(g, r)
RespondAny == \E g \in Fetching, r \in AllResponses : Respond(g, r)
TickSome == \E g \in Gens : Tick(g)
Down == \E p \in Pointers, i \in 1..(2 * MaxRecords) : PointerDown(p, i)
Move == \E p \in Pointers, pt \in Points : PointerMove(p, pt)
Up == \E p \in Pointers : PointerUp(p)
Click == \E i \in 1..(2 * MaxRecords) : FilteredClick(i)

Next == Mount \/ RespondSample \/ TickSome \/ Down \/ Move \/ Up \/ Click

\* the whole component: mounts, responses, ticks, pointer events
Spec == Init /\ [][Next]_vars

\* the build alone, over every record list within the bounds: the component
\* has mounted once and its fetch resolves
InitBuild ==
    /\ mounts = 1
    /\ status = [g \in Gens |-> IF g = 1 THEN "fetching" ELSE "unmounted"]
    /\ data = [g \in Gens |-> <<>>]
    /\ nodes = [g \in Gens |-> <<>>]
    /\ links = [g \in Gens |-> <<>>]
    /\ alpha = [g \in Gens |-> 0]
    /\ alphaTarget = [g \in Gens |-> 0]
    /\ running = [g \in Gens |-> FALSE]
    /\ active = [g \in Gens |-> 0]
    /\ gestures = [p \in Pointers |-> Null]
    /\ container = 0
    /\ opened = <<>>
    /\ console = <<>>
    /\ ticks = 0
NextBuild == RespondAny
SpecBuild == InitBuild /\ [][NextBuild]_vars

\* activations and responses alone: every graph that can be built, for each
\* activation
NextRebuild == Mount \/ RespondAny
SpecRebuild == Init /\ [][NextRebuild]_vars

\* one activation of the view whose fetch has answered with d: the state
\* ThenBuild leaves, at alpha 1 with the timer running
Fresh(d) ==
    /\ mounts = 1
    /\ status = [g \in Gens |-> IF g = 1 THEN "built" ELSE "unmounted"]
    /\ data = [g \in Gens |-> IF g = 1 THEN d ELSE <<>>]
    /\ nodes = [g \in Gens |-> IF g = 1 THEN BuiltNodes(d) ELSE <<>>]
    /\ links = [g \in Gens |-> IF g = 1 THEN Links(d) ELSE <<>>]
    /\ alpha = [g \in Gens |-> IF g = 1 THEN AlphaOne ELSE 0]
    /\ alphaTarget = [g \in Gens |-> 0]
    /\ running = [g \in Gens |-> g = 1]
    /\ active = [g \in Gens |-> 0]
    /\ gestures = [p \in Pointers |-> Null]
    /\ container = 1
    /\ opened = <<>>
    /\ console = <<>>
    /\ ticks = 0

\* alpha once the timer has stopped on the way down from 1 with target 0:
\* the first value below AlphaMin, which SpecDecay ends in
IdleAlpha == 99

\* the same activation after the simulation has been left to cool down: the
\* timer has stopped and the nodes are where the ticks have put them
Idle(d) ==
    /\ mounts = 1
    /\ status = [g \in Gens |-> IF g = 1 THEN "built" ELSE "unmounted"]
    /\ data = [g \in Gens |-> IF g = 1 THEN d ELSE <<>>]
    /\ \E pt \in [DOMAIN BuiltNodes(d) -> Points] :
          nodes = [g \in Gens |->
                      IF g = 1
                      THEN [i \in DOMAIN BuiltNodes(d) |->
                               TickNode(BuiltNodes(d)[i], pt[i])]
                      ELSE <<>>]
    /\ links = [g \in Gens |-> IF g = 1 THEN Links(d) ELSE <<>>]
    /\ alpha = [g \in Gens |-> IF g = 1 THEN IdleAlpha ELSE 0]
    /\ alphaTarget = [g \in Gens |-> 0]
    /\ running = [g \in Gens |-> FALSE]
    /\ active = [g \in Gens |-> 0]
    /\ gestures = [p \in Pointers |-> Null]
    /\ container = 1
    /\ opened = <<>>
    /\ console = <<>>
    /\ ticks = 0

\* one activation, its graph displayed, the simulation either just created
\* or cooled down: ticks, drags and clicks
InitView == Fresh(Example) \/ Idle(Example)
NextView == TickSome \/ Down \/ Move \/ Up \/ Click
SpecView == InitView /\ [][NextView]_vars

\* one activation with a single node, the pointers acting during the first
\* MaxTicks ticks and the timer running on after them, for as long as it
\* has not been stopped
Single == <<[name |-> "A", dependencies |-> Arr(<<>>)]>>
Early == ticks < MaxTicks
InitEnergy == Fresh(Single) \/ Idle(Single)
TickOn == \E g \in Gens : TickWithin(g, MaxDecayTicks)
NextEnergy == (Early /\ (Down \/ Move \/ Up \/ Click)) \/ TickOn
SpecEnergy == InitEnergy /\ [][NextEnergy]_vars /\ WF_vars(TickOn)

\* the simulation left alone: only its timer acts.  The timer calls step
\* on every frame for as long as it has not been stopped.
InitDecay == Fresh(Example)
NextDecay == \E g \in Gens : TickWithin(g, MaxDecayTicks)
SpecDecay == InitDecay /\ [][NextDecay]_vars /\ WF_vars(NextDecay)

(* ------------------------------ the build: claims ---------------------- *)
Built == {g \in Gens : status[g] = "built"}
HasNames(d) == \A k \in DOMAIN d : "name" \in DOMAIN d[k]
DepsOf(item) == item.dependencies.items
NamesIn(d) ==
    {d[k].name : k \in DOMAIN d}
        \cup UNION {{DepsOf(d[k])[j] : j \in DOMAIN DepsOf(d[k])} : k \in DOMAIN d}
NodeNames(g) == {nodes[g][i].name : i \in DOMAIN nodes[g]}
Targets(g) == {links[g][j].target : j \in DOMAIN links[g]}

RECURSIVE DepCount(_)
DepCount(d) ==
    IF d = <<>> THEN 0 ELSE DepCount(Front(d)) + Len(DepsOf(Last(d)))

\* C1: the nodes of a graph built from records that all have a name are
\* exactly the distinct names occurring as a record's name or inside a
\* dependencies list, each once.
C1_OneNodePerName ==
    \A g \in Built :
        HasNames(data[g]) =>
            /\ NodeNames(g) = NamesIn(data[g])
            /\ Len(nodes[g]) = Cardinality(NamesIn(data[g]))
            /\ \A i, j \in DOMAIN nodes[g] :
                  nodes[g][i].name = nodes[g][j].name => i = j

C1_Witness ==
    \E g \in Built :
        /\ HasNames(data[g])
        /\ Len(data[g]) = 2
        /\ data[g][1].name = "A" /\ data[g][2].name = "A"
        /\ DepsOf(data[g][1]) = <<"B", "A">>
        /\ Len(nodes[g]) = 2

\* C2: in a built graph every link's source and target is the name of a node.
C2_NoDanglingEdge ==
    \A g \in Built :
        \A j \in DOMAIN links[g] :
            links[g][j].source \in NodeNames(g) /\ links[g][j].target \in NodeNames(g)

C2_Witness ==
    \E g \in Built :
        /\ Len(links[g]) = 2
        /\ \E j \in DOMAIN links[g] :
              \A k \in DOMAIN data[g] : ItemName(data[g][k]) # links[g][j].target

\* C3: a node of a built graph has isDependency set exactly when its name
\* is the target of a link.
C3_IsDependencyIffTarget ==
    \A g \in Built :
        \A i \in DOMAIN nodes[g] :
            nodes[g][i].isDependency <=> nodes[g][i].name \in Targets(g)

C3_Witness ==
    \E g \in Built :
        \E i, j \in DOMAIN nodes[g] :
            /\ nodes[g][i].isDependency /\ nodes[g][i].name \in Targets(g)
            /\ ~nodes[g][j].isDependency

\* C4: the links of a graph built from records that all have a name are one
\* link (record name, dependency) per entry of a dependencies list, in input
\* order, repeated entries included.
C4_OneLinkPerOccurrence ==
    \A g \in Built :
        HasNames(data[g]) =>
            /\ Len(links[g]) = DepCount(data[g])
            /\ \A k \in DOMAIN data[g] :
                  \A j \in DOMAIN DepsOf(data[g][k]) :
                      links[g][DepCount(SubSeq(data[g], 1, k - 1)) + j]
                          = [source |-> data[g][k].name,
                             target |-> DepsOf(data[g][k])[j]]

C4_Witness ==
    \E g \in Built :
        /\ HasNames(data[g])
        /\ Len(links[g]) = 3
        /\ links[g][1] = links[g][2]
        /\ links[g][3].source # links[g][1].source

\* C5: in a graph built from records that all have a name, a node's model_url
\* is non-null exactly when some record has the node's name as its name, and
\* is then the base path followed by the name.
C5_ModelUrlIffRecord ==
    \A g \in Built :
        HasNames(data[g]) =>
            \A i \in DOMAIN nodes[g] :
                LET n == nodes[g][i]
                    isRecord == \E k \in DOMAIN data[g] : data[g][k].name = n.name
                IN  /\ (n.model_url # Null) <=> isRecord
                    /\ isRecord => n.model_url = Some("/BeSLighthouse/model_report" \o n.name)

C5_Witness ==
    \E g \in Built :
        /\ HasNames(data[g])
        /\ \E i, j \in DOMAIN nodes[g] :
              /\ nodes[g][i].model_url = Some("/BeSLighthouse/model_reportA")
              /\ nodes[g][j].model_url = Null
              /\ nodes[g][j].name \in Targets(g)

(* ------------------------------ fetch and interaction: claims ---------- *)
GestureOf(p) == gestures[p][1]
Dragging(g, i) ==
    \E p \in Pointers :
        gestures[p] # Null /\ GestureOf(p).gen = g /\ GestureOf(p).node = i

\* C6: the graph in the container is never older than a graph built from a
\* later fetch: a response of an earlier fetch does not replace it.
C6_DisplayedIsNewestBuilt ==
    container # 0 => \A g \in Built : g <= container

\* C7: after every tick of a simulation, each of its nodes that is being
\* dragged is pinned and sits at its pinned coordinate.
C7_PinnedAfterTick ==
    [][\A g \in Gens :
          Tick(g) =>
              \A i \in DOMAIN nodes[g] :
                  Dragging(g, i) =>
                      /\ nodes'[g][i].fx # Null /\ nodes'[g][i].fy # Null
                      /\ Some(nodes'[g][i].x) = nodes'[g][i].fx
                      /\ Some(nodes'[g][i].y) = nodes'[g][i].fy]_vars

\* C8 as stated: a gesture for which the drag handlers ran (it started and
\* ended) never also opens a window.
C8_DragXorClick ==
    [][\A p \in Pointers :
          gestures[p] # Null /\ gestures'[p] = Null => opened' = opened]_vars

\* C8 as amended: a gesture during which the pointer moved never opens a
\* window when it ends.
C8_NoClickAfterMove ==
    [][\A p \in Pointers :
          (gestures[p] # Null /\ GestureOf(p).moved /\ gestures'[p] = Null)
              => opened' = opened]_vars

C8_Witness ==
    \E p \in Pointers :
        /\ gestures[p] # Null
        /\ GestureOf(p).moved
        /\ container = GestureOf(p).gen
        /\ Truthy(nodes[GestureOf(p).gen][GestureOf(p).node].model_url)
        /\ nodes[GestureOf(p).gen][GestureOf(p).node].x = GestureOf(p).x
        /\ Len(opened) < MaxOpened

\* C9: every window opened by a click carries the model_url of the node
\* clicked.
C9_OpensModelUrl ==
    \A k \in DOMAIN opened :
        Some(opened[k].url) = nodes[opened[k].gen][opened[k].node].model_url

\* C10: a response with a record whose dependencies is missing or not an
\* array fails as a whole: the error is logged, the instance has no nodes,
\* no links and no simulation, and the step that fails leaves the container
\* and every graph as they were.
FailedOnShape(g) ==
    /\ status[g] = "failed"
    /\ \E k \in DOMAIN console :
          console[k].gen = g /\ console[k].message \in TypeErrors
C10_AllOrNothing ==
    /\ [](\A g \in Gens :
            FailedOnShape(g) =>
                /\ nodes[g] = <<>> /\ links[g] = <<>>
                /\ ~running[g] /\ alpha[g] = 0
                /\ container # g)
    /\ [][\A g \in Gens :
            (status[g] = "fetching" /\ FailedOnShape(g)')
                => /\ Len(console') = Len(console) + 1
                   /\ SubSeq(console', 1, Len(console)) = console
                   /\ console'[Len(console')].gen = g
                   /\ console'[Len(console')].message \in TypeErrors
                   /\ UNCHANGED <<nodes, links, data, container, simVars,
                                  gestures, opened>>]_vars

C10_Witness ==
    \E g, h \in Gens :
        /\ FailedOnShape(g)
        /\ h < g /\ container = h /\ status[h] = "built"
        /\ Len(nodes[h]) = 2

(* ------------------------------ later claims ---------------------------- *)
\* C11: a response with a record that has no name never yields a graph:
\* no instance is built from it and no node carries the name undefined.
C11_NoGraphWithoutName ==
    \A g \in Built :
        /\ HasNames(data[g])
        /\ Undefined \notin NodeNames(g)

\* C12: a response that is not ok, or whose body is not JSON, ends in a
\* logged error whose message carries the status code (or the parse
\* diagnostic): the instance has no nodes, no links and no simulation, and
\* the step that fails leaves the container and every graph as they were.
StatusCodes == {"404", "500"}
FetchMessages ==
    {"Failed to fetch data. Status: " \o c : c \in StatusCodes}
        \cup {"Unexpected token in JSON"}
FailedOnFetch(g) ==
    /\ status[g] = "failed"
    /\ \E k \in DOMAIN console :
          console[k].gen = g /\ console[k].message \notin TypeErrors
SettleTicks == 300
C13_AlphaDecays ==
    /\ [][\A g \in Gens : alpha'[g] <= alpha[g]]_vars
    /\ [](ticks <= SettleTicks)
    /\ [](\A g \in Built : running[g] => alpha[g] >= AlphaMin)
    /\ [][\A g \in Built : ~running[g] => UNCHANGED <<alpha, nodes, running>>]_vars
    /\ <>[](\A g \in Built : ~running[g] /\ alpha[g] < AlphaMin)

C13_Witness ==
    /\ Built # {}
    /\ \A g \in Built : ~running[g] /\ alpha[g] = IdleAlpha
    /\ IdleAlpha < AlphaMin
    /\ ticks > MaxTicks

\* C14: once the view has been deactivated (a later activation has taken
\* its place) the simulation of the earlier activation is not running,
\* whether it had been built before the deactivation or its response
\* arrives after it.
C14_StoppedOnDeactivation ==
    \A g \in Gens : g < mounts => ~running[g]

\* C15: two activations built from the same records have the same nodes
\* (name, isDependency and model_url of each) and the same list of links;
\* nothing of one build carries over into the next.
Shape(g) ==
    {[name |-> nodes[g][i].name,
      isDependency |-> nodes[g][i].isDependency,
      model_url |-> nodes[g][i].model_url] : i \in DOMAIN nodes[g]}
C15_RebuildIdempotent ==
    \A g, h \in Built :
        data[g] = data[h] =>
            /\ Shape(g) = Shape(h)
            /\ Len(nodes[g]) = Len(nodes[h])
            /\ links[g] = links[h]

C15_Witness ==
    \E g, h \in Built :
        /\ g # h
        /\ data[g] = data[h]
        /\ Len(nodes[g]) = 2 /\ Len(links[g]) = 3
        /\ \E i \in DOMAIN nodes[g] : nodes[g][i].model_url = Null

\* C16 as stated: a drag start that finds no other gesture active raises
\* alpha.
C16_DragStartRaisesAlpha ==
    [][\A p \in Pointers :
          (gestures[p] = Null /\ gestures'[p] # Null)
              => LET g == gestures'[p][1].gen
                 IN  active[g] = 0 => alpha'[g] > alpha[g]]_vars

\* C16 as amended: a drag start, with the timer running or stopped, leaves
\* alpha as it is; when no other gesture is active it raises the alpha
\* target to 0.5 and restarts the timer, otherwise it leaves both alone; it
\* pins the node at the position the node has, which makes the node
\* dragged, and changes nothing else of any node.
C16_DragStartEffects ==
    [][\A p \in Pointers :
          (gestures[p] = Null /\ gestures'[p] # Null)
              => LET g == gestures'[p][1].gen
                     i == gestures'[p][1].node
                 IN  /\ alpha' = alpha
                     /\ active[g] = 0 =>
                           alphaTarget'[g] = AlphaDrag /\ running'[g]
                     /\ active[g] > 0 =>
                           /\ alphaTarget'[g] = alphaTarget[g]
                           /\ running'[g] = running[g]
                     /\ nodes'[g][i] =
                           [nodes[g][i] EXCEPT !.fx = Some(nodes[g][i].x),
                                               !.fy = Some(nodes[g][i].y)]
                     /\ \A h \in Gens : \A j \in DOMAIN nodes[h] :
                           <<h, j>> # <<g, i>> => nodes'[h][j] = nodes[h][j]]_vars

C16_Witness ==
    \E p \in Pointers :
        /\ gestures[p] # Null
        /\ LET g == GestureOf(p).gen
               i == GestureOf(p).node
           IN  /\ ~GestureOf(p).moved
               /\ active[g] = 1
               /\ alpha[g] < AlphaMin /\ running[g]
               /\ alphaTarget[g] = AlphaDrag
               /\ nodes[g][i].fx = Some(nodes[g][i].x)
               /\ nodes[g][i].fy = Some(nodes[g][i].y)

\* C17: a drag end clears the node's pin on both axes, so that the next
\* tick moves the node freely; it leaves alpha and the timer as they are
\* (a stopped timer stays stopped), never raises the alpha target, and
\* changes nothing else of any node.
C17_DragEndEffects ==
    [][\A p \in Pointers :
          (gestures[p] # Null /\ gestures'[p] = Null)
              => LET g == GestureOf(p).gen
                     i == GestureOf(p).node
                 IN  /\ nodes'[g][i] =
                           [nodes[g][i] EXCEPT !.fx = Null, !.fy = Null]
                     /\ \A pt \in Points :
                           TickNode(nodes'[g][i], pt).x = pt[1]
                           /\ TickNode(nodes'[g][i], pt).y = pt[2]
                     /\ alpha' = alpha /\ running' = running
                     /\ alphaTarget'[g] <= alphaTarget[g]
                     /\ \A h \in Gens : \A j \in DOMAIN nodes[h] :
                           <<h, j>> # <<g, i>> => nodes'[h][j] = nodes[h][j]]_vars

C17_Witness ==
    \E g \in Built :
        /\ \A p \in Pointers : gestures[p] = Null
        /\ active[g] = 0 /\ alphaTarget[g] = 0
        /\ running[g] /\ alpha[g] < AlphaMin
        /\ \A i \in DOMAIN nodes[g] : nodes[g][i].fx = Null /\ nodes[g][i].fy = Null

\* C18 as stated: a click (a press and release without movement) on a node
\* of a simulation whose alpha is below alphaMin leaves its timer stopped.
C18_ClickKeepsIdle ==
    [][\A p \in Pointers :
          (gestures[p] # Null /\ gestures'[p] = Null /\ ~GestureOf(p).moved)
              => LET g == GestureOf(p).gen
                 IN  alpha[g] < AlphaMin => ~running'[g]]_vars

\* C18 as amended: a tick that takes alpha below alphaMin stops the timer,
\* and while the timer is stopped no step but a pointer press on a node
\* (which d3.drag reports as a drag start, also when it turns out to be a
\* click) changes alpha, a position or the timer: not a tick, not the click
\* handler, not a move or a release.
C18_IdleUntilPress ==
    /\ [][\A g \in Gens :
            (Tick(g) /\ alpha'[g] < AlphaMin) => ~running'[g]]_vars
    /\ [][\A g \in Gens :
            (status[g] = "built" /\ ~running[g] /\ active'[g] <= active[g])
                => /\ ~running'[g]
                   /\ alpha'[g] = alpha[g]
                   /\ \A i \in DOMAIN nodes[g] :
                         /\ nodes'[g][i].x = nodes[g][i].x
                         /\ nodes'[g][i].y = nodes[g][i].y]_vars

C18_Witness ==
    \E g \in Built :
        /\ ~running[g] /\ alpha[g] < AlphaMin
        /\ Len(opened) = 1 /\ opened[1].gen = g
        /\ ticks = 0

\* C19 as stated: while a gesture is active on a simulation, its timer is
\* running and its alpha is not below alphaMin.
ActiveGestures(g) ==
    {p \in Pointers : gestures[p] # Null /\ GestureOf(p).gen = g}
C19_NeverBelowFloorWhileDragged ==
    \A g \in Built :
        ActiveGestures(g) # {} => running[g] /\ alpha[g] >= AlphaMin

\* C19 as amended: the alpha target of a simulation is 0.5 exactly while
\* at least one gesture is active on it and 0 otherwise; it is raised only
\* by the drag start that finds no gesture active and lowered only by the
\* drag end that leaves none; while a gesture is active the timer runs and
\* every tick leaves alpha at or above alphaMin; and once no gesture is
\* active the simulation cools down until its timer stops, unless a new
\* gesture starts first.
C19_TargetFollowsGestures ==
    /\ [](\A g \in Built :
            /\ active[g] = Cardinality(ActiveGestures(g))
            /\ alphaTarget[g] = IF ActiveGestures(g) # {} THEN AlphaDrag ELSE 0
            /\ ActiveGestures(g) # {} => running[g])
    /\ [][\A g \in Gens :
            /\ alphaTarget'[g] > alphaTarget[g]
                  => active[g] = 0 /\ active'[g] = 1
            /\ alphaTarget'[g] < alphaTarget[g]
                  => active[g] = 1 /\ active'[g] = 0
            /\ (ticks' # ticks /\ active[g] > 0 /\ running[g])
                  => alpha'[g] >= AlphaMin /\ running'[g]]_vars
    /\ \A g \in Gens :
          (status[g] = "built" /\ active[g] = 0)
              ~> (\/ ~running[g] /\ alpha[g] < AlphaMin
                  \/ active[g] > 0)

C19_Witness ==
    \E g \in Built :
        /\ Cardinality(ActiveGestures(g)) = 2
        /\ active[g] = 2
        /\ alphaTarget[g] = AlphaDrag
        /\ running[g]
        /\ alpha[g] < AlphaMin

\* C20: in every state a node is pinned (fx and fy set) exactly when a
\* gesture is dragging it.
C20_PinnedIffDragging ==
    \A g \in Built :
        \A i \in DOMAIN nodes[g] :
            (nodes[g][i].fx # Null /\ nodes[g][i].fy # Null) <=> Dragging(g, i)
====
